---- MODULE Spec2Model ----
(***************************************************************************)
(* A model of handler_wrappers.go: the request-logging decorator           *)
(* (transactionAwareRequestLoggingHandler), the response-tracking sinks    *)
(* built by makeLogger, and the request-timing decorator                   *)
(* (httpMetricsHandler).                                                   *)
(***************************************************************************)
EXTENDS Integers, Sequences, FiniteSets, TLC

\* ------------------------------------------------------------------------
\* Bounds and input sets
\* ------------------------------------------------------------------------

\* the largest number of calls an inner handler makes on its response sink
MaxOps == 3

\* the number of requests that pass through the timing decorator concurrently
NumTimed == 3

\* requests served by the logging decorator
Reqs == {"r1"}

\* status codes an inner handler passes to WriteHeader
Codes == {200, 404, 500}

\* lengths of the byte slices an inner handler passes to Write
Lens == {0, 10, 37}

\* request methods seen by the timing decorator
Methods == {"GET", "POST"}

\* http.StatusOK and http.StatusSwitchingProtocols
StatusOK == 200
StatusSwitchingProtocols == 101

VARIABLES
    pc,        \* per logged request: position in ServeHTTP
    w,         \* per logged request: the interfaces the real sink implements
    logger,    \* per logged request: the sink returned by makeLogger
    wire,      \* per logged request: the calls the real sink has received
    calls,     \* per logged request: the calls the inner handler has made
    logs,      \* the records emitted by writeRequestLog, in order
    req,       \* per logged request: the *http.Request, which the handler shares
    url,       \* per logged request: the local copy url := *req.URL
    req0,      \* per logged request: the request as ServeHTTP received it
    tpc,       \* per timed request: position in httpMetricsHandler.ServeHTTP
    method,    \* per timed request: req.Method
    t,         \* per timed request: the timer held in local variable t
    timers,    \* every timer object created so far: its name and sample count
    registry   \* metrics.DefaultRegistry: name -> index of the timer in timers

logVars == <<pc, w, logger, wire, calls, logs, req, url, req0>>
timeVars == <<tpc, method, t, timers, registry>>
vars == <<pc, w, logger, wire, calls, logs, req, url, req0,
         tpc, method, t, timers, registry>>

\* ------------------------------------------------------------------------
\* Values
\* ------------------------------------------------------------------------

\* what a call returns: Write returns (n, err), Hijack returns (conn, rw, err),
\* the other calls return nothing that is tracked
NoRes == [n |-> 0, conn |-> "nil", rw |-> "nil", err |-> "nil"]

Call(op, arg, res) == [op |-> op, arg |-> arg, res |-> res]

\* the outcomes of the real sink's Write for a slice of length len: an
\* io.Writer returns 0 <= n <= len and a non-nil error when n < len
WriteResults(len) ==
    {[NoRes EXCEPT !.n = len]}
    \cup {[NoRes EXCEPT !.n = k, !.err = "ErrWrite"] : k \in {0, len \div 2} \ {len}}

\* the outcomes of the real sink's Hijack
HijackResults ==
    { [NoRes EXCEPT !.conn = "conn", !.rw = "rw"],
      [NoRes EXCEPT !.err = "ErrHijack"],
      [NoRes EXCEPT !.conn = "conn", !.err = "ErrHijack"] }

\* the real sinks: which optional interfaces the http.ResponseWriter implements
Sinks == [Hijacker : BOOLEAN, CloseNotifier : BOOLEAN, Flusher : BOOLEAN]

\* ------------------------------------------------------------------------
\* The sink types and makeLogger
\* ------------------------------------------------------------------------

\* the methods of interface loggingResponseWriter
loggingResponseWriter ==
    {"Header", "Write", "WriteHeader", "Flush", "Status", "Size"}


\* a variant: the tracked status starts at 200 instead of the zero value
responseLogger_StartsOK ==
    [type |-> "responseLogger", Hijacker |-> "none", CloseNotifier |-> "none",
     status |-> 200, size |-> 0]

\* a responseLogger: status and size start at their zero values
responseLogger ==
    [type |-> "responseLogger", Hijacker |-> "none", CloseNotifier |-> "none",
     status |-> 0, size |-> 0]

\* a hijackLogger embeds a responseLogger
hijackLogger == [responseLogger EXCEPT !.type = "hijackLogger"]

\* closeNotifyWriter{logger, c}: the embedded loggingResponseWriter keeps the
\* tracked state, the embedded CloseNotifier is the real sink
closeNotifyWriter(l) ==
    [l EXCEPT !.type = "closeNotifyWriter", !.CloseNotifier = "w"]

\* hijackCloseNotifier{logger, h, c}: h is the Hijacker the Hijack call goes to
hijackCloseNotifier(l, h) ==
    [l EXCEPT !.type = "hijackCloseNotifier", !.Hijacker = h, !.CloseNotifier = "w"]

\* the method set of a sink, by its dynamic type: what a type assertion on it
\* finds. Embedding the interface loggingResponseWriter promotes its methods
\* only, whatever the dynamic type of the embedded value.
MethodSet(l) ==
    CASE l.type = "responseLogger"      -> loggingResponseWriter
      [] l.type = "hijackLogger"        -> loggingResponseWriter \cup {"Hijack"}
      [] l.type = "closeNotifyWriter"   -> loggingResponseWriter \cup {"CloseNotify"}
      [] l.type = "hijackCloseNotifier" ->
            loggingResponseWriter \cup {"Hijack", "CloseNotify"}
      [] OTHER -> {}


\* a variant: the close-notification wrapper is chosen whenever the real sink
\* notifies, the combined case forgotten
makeLogger_DropsHijack(rw) ==
    LET logger0 == IF rw.Hijacker THEN hijackLogger ELSE responseLogger
    IN  IF rw.CloseNotifier THEN closeNotifyWriter(logger0) ELSE logger0

\* a variant: the combined wrapper embeds the real sink as its Hijacker
makeLogger_RawHijacker(rw) ==
    LET logger0 == IF rw.Hijacker THEN hijackLogger ELSE responseLogger
        ok1 == "Hijack" \in MethodSet(logger0)
        ok2 == rw.CloseNotifier
    IN  IF ok1 /\ ok2 THEN hijackCloseNotifier(logger0, "w")
        ELSE IF ok2 THEN closeNotifyWriter(logger0)
        ELSE logger0

makeLogger(rw) ==
    LET logger0 == IF rw.Hijacker THEN hijackLogger ELSE responseLogger
        ok1 == "Hijack" \in MethodSet(logger0)
        ok2 == rw.CloseNotifier
    IN  IF ok1 /\ ok2 THEN hijackCloseNotifier(logger0, logger0.type)
        ELSE IF ok2 THEN closeNotifyWriter(logger0)
        ELSE logger0

\* the state before makeLogger has run
NoLogger == [responseLogger EXCEPT !.type = "none"]

\* ------------------------------------------------------------------------
\* The methods of the sinks. Each takes the sink l, the calls ws the real
\* sink has received and the outcome res of the real sink's call, and gives
\* the sink afterwards, the real sink's calls afterwards and the value
\* returned to the caller.
\* ------------------------------------------------------------------------

Out(l, ws, ret) == [l |-> l, wire |-> ws, ret |-> ret]

responseLogger_Header(l, ws) ==
    Out(l, Append(ws, Call("Header", 0, NoRes)), NoRes)


\* a variant: size grows by the length of the slice, not by the count returned
responseLogger_Write_CountsRequested(l, ws, b, res) ==
    LET l1 == IF l.status = 0 THEN [l EXCEPT !.status = StatusOK] ELSE l
    IN  Out([l1 EXCEPT !.size = @ + b], Append(ws, Call("Write", b, res)), res)

\* a variant: a write leaves an unset status unset
responseLogger_Write_NoDefault(l, ws, b, res) ==
    Out([l EXCEPT !.size = @ + res.n], Append(ws, Call("Write", b, res)), res)

\* a variant: size is set to the count returned, not increased by it
responseLogger_Write_Assigns(l, ws, b, res) ==
    LET l1 == IF l.status = 0 THEN [l EXCEPT !.status = StatusOK] ELSE l
    IN  Out([l1 EXCEPT !.size = res.n], Append(ws, Call("Write", b, res)), res)

\* a variant: an unset status becomes 200 only when the real Write succeeds
responseLogger_Write_DefaultsOnSuccess(l, ws, b, res) ==
    LET l1 == IF l.status = 0 /\ res.err = "nil"
              THEN [l EXCEPT !.status = StatusOK] ELSE l
    IN  Out([l1 EXCEPT !.size = @ + res.n], Append(ws, Call("Write", b, res)), res)

responseLogger_Write(l, ws, b, res) ==
    LET l1 == IF l.status = 0 THEN [l EXCEPT !.status = StatusOK] ELSE l
    IN  Out([l1 EXCEPT !.size = @ + res.n], Append(ws, Call("Write", b, res)), res)

\* a variant: the code is recorded only while the status is unset
responseLogger_WriteHeader_FirstWins(l, ws, s) ==
    Out(IF l.status = 0 THEN [l EXCEPT !.status = s] ELSE l,
        Append(ws, Call("WriteHeader", s, NoRes)), NoRes)

responseLogger_WriteHeader(l, ws, s) ==
    Out([l EXCEPT !.status = s], Append(ws, Call("WriteHeader", s, NoRes)), NoRes)

responseLogger_Status(l) == l.status

responseLogger_Size(l) == l.size

\* a variant: a flush marks the headers as sent with the default status
responseLogger_Flush_SetsOK(l, ws, ok) ==
    LET l1 == IF l.status = 0 THEN [l EXCEPT !.status = StatusOK] ELSE l
    IN  IF ok THEN Out(l1, Append(ws, Call("Flush", 0, NoRes)), NoRes)
        ELSE Out(l1, ws, NoRes)

responseLogger_Flush(l, ws, ok) ==
    IF ok THEN Out(l, Append(ws, Call("Flush", 0, NoRes)), NoRes)
    ELSE Out(l, ws, NoRes)


\* a variant: the status is set whether or not the real Hijack failed
hijackLogger_Hijack_IgnoresErr(l, ws, res) ==
    LET l1 == IF l.status = 0
              THEN [l EXCEPT !.status = StatusSwitchingProtocols]
              ELSE l
    IN  Out(l1, Append(ws, Call("Hijack", 0, res)), res)

\* a variant: the synthesized status is also sent to the real sink
hijackLogger_Hijack_SendsStatus(l, ws, res) ==
    IF res.err = "nil" /\ l.status = 0
    THEN Out([l EXCEPT !.status = StatusSwitchingProtocols],
             Append(Append(ws, Call("Hijack", 0, res)),
                    Call("WriteHeader", StatusSwitchingProtocols, NoRes)),
             res)
    ELSE Out(l, Append(ws, Call("Hijack", 0, res)), res)

\* a variant: a successful Hijack sets the status whatever it was
hijackLogger_Hijack_Overwrites(l, ws, res) ==
    LET l1 == IF res.err = "nil"
              THEN [l EXCEPT !.status = StatusSwitchingProtocols]
              ELSE l
    IN  Out(l1, Append(ws, Call("Hijack", 0, res)), res)

hijackLogger_Hijack(l, ws, res) ==
    LET l1 == IF res.err = "nil" /\ l.status = 0
              THEN [l EXCEPT !.status = StatusSwitchingProtocols]
              ELSE l
    IN  Out(l1, Append(ws, Call("Hijack", 0, res)), res)

\* Hijack on the sink makeLogger returned: a hijackLogger runs its own
\* method, a hijackCloseNotifier the method of its embedded Hijacker
Hijack(l, ws, res) ==
    IF l.type = "hijackLogger" \/ l.Hijacker = "hijackLogger"
    THEN hijackLogger_Hijack(l, ws, res)
    ELSE Out(l, Append(ws, Call("Hijack", 0, res)), res)

\* CloseNotify goes to the embedded CloseNotifier, the real sink
CloseNotify(l, ws) ==
    Out(l, Append(ws, Call("CloseNotify", 0, NoRes)), NoRes)

\* ------------------------------------------------------------------------
\* transactionAwareRequestLoggingHandler.ServeHTTP
\* ------------------------------------------------------------------------

\* Strings that are put together or tested for emptiness are sequences of
\* pieces: "" is <<>>, and s + t is s \o t.

\* req.URL.User: nil, or a Userinfo with a username
NoUser == [set |-> FALSE, name |-> ""]
Users == {NoUser, [set |-> TRUE, name |-> ""], [set |-> TRUE, name |-> "bob"]}

\* the url.URL values of the requests: the fields RequestURI and User read
\* (hierarchical URLs, whose opaque part is empty)
URLs == [Opaque : {<<>>}, Path : {<<>>, <<"/p">>},
         RawQuery : {<<>>, <<"q=1">>}, User : Users]

\* the zero url.URL, the value of url before line 43
ZeroURL == [Opaque |-> <<>>, Path |-> <<>>, RawQuery |-> <<>>, User |-> NoUser]

\* the requests: the fields of *http.Request that writeRequestLog reads
Requests == [Method : {"GET", "CONNECT"}, ProtoMajor : {1, 2},
             RequestURI : {<<>>, <<"/raw">>},
             Host : {<<>>, <<"proxy.example:443">>}, URL : URLs]

\* a plain request: GET /p?q=1 over HTTP/1.1
DefaultRequest ==
    [Method |-> "GET", ProtoMajor |-> 1, RequestURI |-> <<"/p", "?", "q=1">>,
     Host |-> <<"example.com">>,
     URL |-> [Opaque |-> <<>>, Path |-> <<"/p">>, RawQuery |-> <<"q=1">>,
              User |-> NoUser]]

\* (*url.URL).RequestURI(): the opaque part, or else the path, or else "/",
\* followed by "?" and the query when there is one
URL_RequestURI(u) ==
    LET result == IF u.Opaque # <<>> THEN u.Opaque
                  ELSE IF u.Path # <<>> THEN u.Path
                  ELSE <<"/">>
    IN  IF u.RawQuery # <<>> THEN result \o <<"?">> \o u.RawQuery ELSE result

\* lines 143-148
Username(u) ==
    IF u.User.set /\ u.User.name # "" THEN u.User.name ELSE "-"

\* a variant: the fallback is taken when the raw URI is empty, before the
\* authority of an HTTP/2 CONNECT replaces it
LogURI_FallbackOnRaw(rq, u) ==
    IF rq.RequestURI = <<>> THEN URL_RequestURI(u)
    ELSE IF rq.ProtoMajor = 2 /\ rq.Method = "CONNECT" THEN rq.Host
    ELSE rq.RequestURI

\* lines 156-166
LogURI(rq, u) ==
    LET uri0 == rq.RequestURI
        uri1 == IF rq.ProtoMajor = 2 /\ rq.Method = "CONNECT" THEN rq.Host ELSE uri0
    IN  IF uri1 = <<>> THEN URL_RequestURI(u) ELSE uri1

\* a variant: the username and the fallback URI are read from req.URL, not
\* from the copy taken before the inner handler ran
writeRequestLog_LiveURL(r, rq, u, status, size) ==
    [req |-> r, method |-> rq.Method, username |-> Username(rq.URL),
     uri |-> LogURI(rq, rq.URL), status |-> status, size |-> size]

\* the record writeRequestLog emits for request rq, URL copy u and the
\* tracked status and size: the fields the properties below read
writeRequestLog(r, rq, u, status, size) ==
    [req |-> r, method |-> rq.Method, username |-> Username(u),
     uri |-> LogURI(rq, u), status |-> status, size |-> size]

\* lines 40-43: the sink is built and req.URL copied before the inner
\* handler is called
Setup(r) ==
    /\ pc[r] = "start"
    /\ logger' = [logger EXCEPT ![r] = makeLogger(w[r])]
    /\ url' = [url EXCEPT ![r] = req[r].URL]
    /\ pc' = [pc EXCEPT ![r] = "handler"]
    /\ UNCHANGED <<w, wire, calls, logs, req, req0>>

\* a variant: the tracked status and size are kept in one place for all the
\* requests, not in the sink made for each
Did_SharedTracker(r, op, arg, out) ==
    /\ logger' = [q \in DOMAIN logger |->
                     IF q = r THEN out.l
                     ELSE [logger[q] EXCEPT !.status = out.l.status,
                                            !.size = out.l.size]]
    /\ wire' = [wire EXCEPT ![r] = out.wire]
    /\ calls' = [calls EXCEPT ![r] = Append(@, Call(op, arg, out.ret))]
    /\ UNCHANGED <<pc, w, logs, req, url, req0>>

\* one call of the inner handler on the sink, with its effects
Did(r, op, arg, out) ==
    /\ logger' = [logger EXCEPT ![r] = out.l]
    /\ wire' = [wire EXCEPT ![r] = out.wire]
    /\ calls' = [calls EXCEPT ![r] = Append(@, Call(op, arg, out.ret))]
    /\ UNCHANGED <<pc, w, logs, req, url, req0>>

RECURSIVE TotalCalls(_)
\* the number of calls the inner handlers of the requests rs have made
TotalCalls(rs) ==
    IF rs = {} THEN 0
    ELSE LET r == CHOOSE x \in rs : TRUE
         IN  Len(calls[r]) + TotalCalls(rs \ {r})

\* the inner handler of r is running; the handlers make MaxOps calls in all
InHandler(r) == pc[r] = "handler" /\ TotalCalls(DOMAIN pc) < MaxOps

HandlerHeader(r) ==
    /\ InHandler(r)
    /\ Did(r, "Header", 0, responseLogger_Header(logger[r], wire[r]))

HandlerWrite(r) ==
    /\ InHandler(r)
    /\ \E b \in Lens : \E res \in WriteResults(b) :
          Did(r, "Write", b, responseLogger_Write(logger[r], wire[r], b, res))

HandlerWriteHeader(r) ==
    /\ InHandler(r)
    /\ \E s \in Codes :
          Did(r, "WriteHeader", s, responseLogger_WriteHeader(logger[r], wire[r], s))

HandlerFlush(r) ==
    /\ InHandler(r)
    /\ Did(r, "Flush", 0, responseLogger_Flush(logger[r], wire[r], w[r].Flusher))

\* the inner handler can call Hijack only when the sink is an http.Hijacker
HandlerHijack(r) ==
    /\ InHandler(r)
    /\ "Hijack" \in MethodSet(logger[r])
    /\ \E res \in HijackResults :
          Did(r, "Hijack", 0, Hijack(logger[r], wire[r], res))

\* and CloseNotify only when it is an http.CloseNotifier
HandlerCloseNotify(r) ==
    /\ InHandler(r)
    /\ "CloseNotify" \in MethodSet(logger[r])
    /\ Did(r, "CloseNotify", 0, CloseNotify(logger[r], wire[r]))

\* line 44 returns
HandlerReturn(r) ==
    /\ pc[r] = "handler"
    /\ pc' = [pc EXCEPT ![r] = "returned"]
    /\ UNCHANGED <<w, logger, wire, calls, logs, req, url, req0>>

\* the inner handler assigns a field of the request it was passed
HandlerSetRequest(r) ==
    /\ pc[r] = "handler"
    /\ \E rq \in Requests :
          /\ rq.URL = req[r].URL
          /\ Cardinality({f \in {"Method", "ProtoMajor", "RequestURI", "Host"} :
                              rq[f] # req[r][f]}) = 1
          /\ req' = [req EXCEPT ![r] = rq]
    /\ UNCHANGED <<pc, w, logger, wire, calls, logs, url, req0>>

\* the inner handler assigns a field of req.URL
HandlerSetURL(r) ==
    /\ pc[r] = "handler"
    /\ \E u \in URLs :
          /\ Cardinality({f \in {"Opaque", "Path", "RawQuery", "User"} :
                              u[f] # req[r].URL[f]}) = 1
          /\ req' = [req EXCEPT ![r].URL = u]
    /\ UNCHANGED <<pc, w, logger, wire, calls, logs, url, req0>>


\* a variant: the record is emitted while the inner handler is still running
WriteRequestLog_Early(r) ==
    /\ pc[r] = "handler"
    /\ \A i \in DOMAIN logs : logs[i].req # r
    /\ logs' = Append(logs, writeRequestLog(r, req[r], url[r],
                                              responseLogger_Status(logger[r]),
                                              responseLogger_Size(logger[r])))
    /\ UNCHANGED <<pc, w, logger, wire, calls, req, url, req0>>

\* line 45
WriteRequestLog(r) ==
    /\ pc[r] = "returned"
    /\ logs' = Append(logs, writeRequestLog(r, req[r], url[r],
                                              responseLogger_Status(logger[r]),
                                              responseLogger_Size(logger[r])))
    /\ pc' = [pc EXCEPT ![r] = "done"]
    /\ UNCHANGED <<w, logger, wire, calls, req, url, req0>>

\* the requests rs enter ServeHTTP, each with a real sink of sinks and a
\* request of requests
InitLogWith(rs, sinks, requests) ==
    /\ pc = [r \in rs |-> "start"]
    /\ w \in [rs -> sinks]
    /\ logger = [r \in rs |-> NoLogger]
    /\ wire = [r \in rs |-> <<>>]
    /\ calls = [r \in rs |-> <<>>]
    /\ logs = <<>>
    /\ req \in [rs -> requests]
    /\ req0 = req
    /\ url = [r \in rs |-> ZeroURL]

InitLog == InitLogWith(Reqs, Sinks, {DefaultRequest})

\* ------------------------------------------------------------------------
\* httpMetricsHandler.ServeHTTP
\* ------------------------------------------------------------------------

TimedReqs == 1..NumTimed


\* a variant: a new timer is registered under the name on every call
GetOrRegisterTimer_AlwaysNew(name, reg, tms) ==
    [t |-> Len(tms) + 1,
     registry |-> [m \in DOMAIN reg \cup {name} |->
                       IF m = name THEN Len(tms) + 1 ELSE reg[m]],
     timers |-> Append(tms, [name |-> name, count |-> 0])]

\* metrics.GetOrRegisterTimer(name, registry): the timer registered under
\* name, or a new one registered under it when there is none; the registry
\* does this under its mutex, so it is one step
GetOrRegisterTimer(name, reg, tms) ==
    IF name \in DOMAIN reg
    THEN [t |-> reg[name], registry |-> reg, timers |-> tms]
    ELSE [t |-> Len(tms) + 1,
          registry |-> [m \in DOMAIN reg \cup {name} |->
                            IF m = name THEN Len(tms) + 1 ELSE reg[m]],
          timers |-> Append(tms, [name |-> name, count |-> 0])]

\* the end of t.Time(f): Update records one sample, under the timer's mutex
Update(tms, i) == [tms EXCEPT ![i].count = @ + 1]

\* line 25
GetTimer(q) ==
    /\ tpc[q] = "start"
    /\ LET got == GetOrRegisterTimer(method[q], registry, timers)
       IN  /\ t' = [t EXCEPT ![q] = got.t]
           /\ registry' = got.registry
           /\ timers' = got.timers
    /\ tpc' = [tpc EXCEPT ![q] = "timing"]
    /\ UNCHANGED method

\* line 26: t.Time runs the inner handler, which returns
TimedHandler(q) ==
    /\ tpc[q] = "timing"
    /\ tpc' = [tpc EXCEPT ![q] = "returned"]
    /\ UNCHANGED <<method, t, timers, registry>>

\* line 26: t.Time records the elapsed time on the timer it was called on
TimeUpdate(q) ==
    /\ tpc[q] = "returned"
    /\ timers' = Update(timers, t[q])
    /\ tpc' = [tpc EXCEPT ![q] = "done"]
    /\ UNCHANGED <<method, t, registry>>

InitTime ==
    /\ tpc = [q \in TimedReqs |-> "start"]
    /\ method \in [TimedReqs -> Methods]
    /\ t = [q \in TimedReqs |-> 0]
    /\ timers = <<>>
    /\ registry = [m \in {} |-> 0]

\* no request is passing through the timing decorator
NoTimed ==
    /\ tpc = <<>>
    /\ method = <<>>
    /\ t = <<>>
    /\ timers = <<>>
    /\ registry = [m \in {} |-> 0]

\* no request is passing through the logging decorator
NoLogged ==
    /\ pc = [r \in {} |-> "start"]
    /\ w = [r \in {} |-> 0]
    /\ logger = [r \in {} |-> 0]
    /\ wire = [r \in {} |-> 0]
    /\ calls = [r \in {} |-> 0]
    /\ logs = <<>>
    /\ req = [r \in {} |-> 0]
    /\ url = [r \in {} |-> 0]
    /\ req0 = [r \in {} |-> 0]

\* ------------------------------------------------------------------------
\* Specifications
\* ------------------------------------------------------------------------

\* requests through the logging decorator
Init == InitLog /\ NoTimed

Next ==
    \/ \E r \in DOMAIN pc : Setup(r) /\ UNCHANGED timeVars
    \/ \E r \in DOMAIN pc : HandlerHeader(r) /\ UNCHANGED timeVars
    \/ \E r \in DOMAIN pc : HandlerWrite(r) /\ UNCHANGED timeVars
    \/ \E r \in DOMAIN pc : HandlerWriteHeader(r) /\ UNCHANGED timeVars
    \/ \E r \in DOMAIN pc : HandlerFlush(r) /\ UNCHANGED timeVars
    \/ \E r \in DOMAIN pc : HandlerHijack(r) /\ UNCHANGED timeVars
    \/ \E r \in DOMAIN pc : HandlerCloseNotify(r) /\ UNCHANGED timeVars
    \/ \E r \in DOMAIN pc : HandlerReturn(r) /\ UNCHANGED timeVars
    \/ \E r \in DOMAIN pc : WriteRequestLog(r) /\ UNCHANGED timeVars

Spec == Init /\ [][Next]_vars

\* requests whose inner handler assigns fields of the request
PlainSink == [Hijacker |-> FALSE, CloseNotifier |-> FALSE, Flusher |-> TRUE]

InitReq == InitLogWith(Reqs, {PlainSink}, Requests) /\ NoTimed

NextReq ==
    \/ \E r \in DOMAIN pc : Setup(r) /\ UNCHANGED timeVars
    \/ \E r \in DOMAIN pc : HandlerSetRequest(r) /\ UNCHANGED timeVars
    \/ \E r \in DOMAIN pc : HandlerSetURL(r) /\ UNCHANGED timeVars
    \/ \E r \in DOMAIN pc : HandlerReturn(r) /\ UNCHANGED timeVars
    \/ \E r \in DOMAIN pc : WriteRequestLog(r) /\ UNCHANGED timeVars

SpecReq == InitReq /\ [][NextReq]_vars

\* concurrent requests through the logging decorator, the steps of their
\* inner handlers interleaved
ConcReqs == {"r1", "r2"}

\* their real sinks implement every optional interface
ConcSinks == {[Hijacker |-> TRUE, CloseNotifier |-> TRUE, Flusher |-> TRUE]}

InitConc == InitLogWith(ConcReqs, ConcSinks, {DefaultRequest}) /\ NoTimed

NextConc ==
    \/ \E r \in DOMAIN pc : Setup(r) /\ UNCHANGED timeVars
    \/ \E r \in DOMAIN pc : HandlerWrite(r) /\ UNCHANGED timeVars
    \/ \E r \in DOMAIN pc : HandlerWriteHeader(r) /\ UNCHANGED timeVars
    \/ \E r \in DOMAIN pc : HandlerHijack(r) /\ UNCHANGED timeVars
    \/ \E r \in DOMAIN pc : HandlerReturn(r) /\ UNCHANGED timeVars
    \/ \E r \in DOMAIN pc : WriteRequestLog(r) /\ UNCHANGED timeVars

SpecConc == InitConc /\ [][NextConc]_vars

\* concurrent requests through the timing decorator
InitTimer == NoLogged /\ InitTime

NextTimer ==
    \/ \E q \in DOMAIN tpc : GetTimer(q) /\ UNCHANGED logVars
    \/ \E q \in DOMAIN tpc : TimedHandler(q) /\ UNCHANGED logVars
    \/ \E q \in DOMAIN tpc : TimeUpdate(q) /\ UNCHANGED logVars

SpecTimer == InitTimer /\ [][NextTimer]_vars

\* ------------------------------------------------------------------------
\* Properties
\* ------------------------------------------------------------------------

\* the records emitted for request r
LogsOf(r) == SelectSeq(logs, LAMBDA rec : rec.req = r)

\* the record of a request that is done
LogRec(r) == LogsOf(r)[1]

\* the calls of cs whose operation is in ops
OpsIn(cs, ops) == SelectSeq(cs, LAMBDA c : c.op \in ops)

\* a sequence of calls without the results
Sent(cs) == [i \in DOMAIN cs |-> <<cs[i].op, cs[i].arg>>]

RECURSIVE SumArg(_)
\* the sum of the lengths passed to the calls of cs
SumArg(cs) == IF cs = <<>> THEN 0 ELSE cs[1].arg + SumArg(Tail(cs))

RECURSIVE SumN(_)
\* the sum of the counts returned by the calls of cs
SumN(cs) == IF cs = <<>> THEN 0 ELSE cs[1].res.n + SumN(Tail(cs))

\* the index of the first call of cs that satisfies Test, Len(cs) + 1 if none
FirstIdx(cs, Test(_)) ==
    IF \E i \in DOMAIN cs : Test(cs[i])
    THEN CHOOSE i \in DOMAIN cs : Test(cs[i]) /\ \A j \in 1..(i - 1) : ~Test(cs[j])
    ELSE Len(cs) + 1

IsWrite(c) == c.op = "Write"
IsWriteHeader(c) == c.op = "WriteHeader"
IsHijackOK(c) == c.op = "Hijack" /\ c.res.err = "nil"
SetsStatus(c) == IsWrite(c) \/ IsWriteHeader(c)

\* the calls of cs before index i, and those after it
Before(cs, i) == SubSeq(cs, 1, i - 1)
After(cs, i) == SubSeq(cs, i + 1, Len(cs))

\* the code of the last WriteHeader call of cs, which has one
LastCode(cs) == LET hs == OpsIn(cs, {"WriteHeader"}) IN hs[Len(hs)].arg

\* C1: a request has no log record until its inner handler has returned and
\* ServeHTTP has reached its last line, and exactly one from then on.
C1_OneRecordAfterReturn ==
    \A r \in DOMAIN pc :
        /\ pc[r] = "done" => Len(LogsOf(r)) = 1
        /\ pc[r] # "done" => Len(LogsOf(r)) = 0

C1_Witness ==
    \E r \in DOMAIN pc :
        pc[r] = "done" /\ Len(calls[r]) = MaxOps /\ Len(LogsOf(r)) = 1

\* C2 as stated: the logged size is the sum of the lengths passed to Write.
C2_SizeIsBytesPassed ==
    \A r \in DOMAIN pc :
        pc[r] = "done" => LogRec(r).size = SumArg(OpsIn(calls[r], {"Write"}))

\* C2 as amended: the logged size is the sum of the counts the real sink's
\* Write returned, which is the sum of the lengths passed when no write was
\* cut short.
C2_SizeIsBytesForwarded ==
    \A r \in DOMAIN pc :
        pc[r] = "done" =>
            /\ LogRec(r).size = SumN(OpsIn(wire[r], {"Write"}))
            /\ (\A i \in DOMAIN wire[r] : wire[r][i].res.n = wire[r][i].arg
                                          \/ wire[r][i].op # "Write")
               => LogRec(r).size = SumArg(OpsIn(calls[r], {"Write"}))

C2_Witness ==
    \E r \in DOMAIN pc :
        /\ pc[r] = "done"
        /\ \E i, j \in DOMAIN calls[r] :
              /\ calls[r][i].op = "Write" /\ calls[r][i].res.n < calls[r][i].arg
              /\ calls[r][j].op = "Write" /\ calls[r][j].res.n = 37
        /\ LogRec(r).size > 37

\* C3 as stated: when WriteHeader is called before the first Write, the
\* logged status is the code of the last WriteHeader call before that Write,
\* whatever the handler calls afterwards.
C3_StatusIsLastBeforeWrite ==
    \A r \in DOMAIN pc :
        LET pre == Before(calls[r], FirstIdx(calls[r], IsWrite))
        IN  (pc[r] = "done" /\ OpsIn(pre, {"WriteHeader"}) # <<>>)
                => LogRec(r).status = LastCode(pre)

\* C4 as stated: a successful Hijack with no WriteHeader before it gives a
\* logged status of 101, whatever else the handler calls.
C4_UpgradeLogs101 ==
    \A r \in DOMAIN pc :
        LET i == FirstIdx(calls[r], IsHijackOK)
        IN  (/\ pc[r] = "done"
             /\ i <= Len(calls[r])
             /\ OpsIn(Before(calls[r], i), {"WriteHeader"}) = <<>>)
                => LogRec(r).status = StatusSwitchingProtocols

\* C4 as amended: a successful Hijack with neither WriteHeader nor Write
\* before it gives a logged status of 101 when no WriteHeader follows it, and
\* of the last WriteHeader's code when one does.
C4_UpgradeLogs101WhenUnset ==
    \A r \in DOMAIN pc :
        LET i == FirstIdx(calls[r], IsHijackOK)
        IN  (/\ pc[r] = "done"
             /\ i <= Len(calls[r])
             /\ OpsIn(Before(calls[r], i), {"WriteHeader", "Write"}) = <<>>)
                => LogRec(r).status =
                      IF OpsIn(After(calls[r], i), {"WriteHeader"}) = <<>>
                      THEN StatusSwitchingProtocols
                      ELSE LastCode(After(calls[r], i))

C4_Witness ==
    \E r \in DOMAIN pc :
        /\ pc[r] = "done"
        /\ w[r].Hijacker /\ w[r].CloseNotifier
        /\ Len(calls[r]) = 3
        /\ calls[r][1].op = "Flush"
        /\ IsHijackOK(calls[r][2])
        /\ calls[r][3].op = "Write"
        /\ LogRec(r).status = StatusSwitchingProtocols

\* C5: a Hijack that the real sink fails returns the real sink's results as
\* they are and leaves the tracked status and size as they were.
C5_FailedHijackUnchanged ==
    [][\A r \in DOMAIN pc :
          (/\ Len(calls'[r]) = Len(calls[r]) + 1
           /\ calls'[r][Len(calls'[r])].op = "Hijack"
           /\ wire'[r] # <<>>
           /\ wire'[r][Len(wire'[r])].res.err # "nil")
          => /\ Len(wire'[r]) = Len(wire[r]) + 1
             /\ wire'[r][Len(wire'[r])].op = "Hijack"
             /\ calls'[r][Len(calls'[r])].res = wire'[r][Len(wire'[r])].res
             /\ logger'[r].status = logger[r].status
             /\ logger'[r].size = logger[r].size]_vars

C5_Witness ==
    \E r \in DOMAIN pc :
        /\ calls[r] # <<>>
        /\ calls[r][Len(calls[r])].op = "Hijack"
        /\ calls[r][Len(calls[r])].res.err = "ErrHijack"
        /\ calls[r][Len(calls[r])].res.conn = "conn"
        /\ logger[r].status = 0

\* C6: the sink makeLogger returns is a Hijacker exactly when the real sink
\* is, a CloseNotifier exactly when the real sink is, and always has Status
\* and Size.
C6_CapabilitiesPreserved ==
    \A r \in DOMAIN pc :
        pc[r] # "start" =>
            /\ "Hijack" \in MethodSet(logger[r]) <=> w[r].Hijacker
            /\ "CloseNotify" \in MethodSet(logger[r]) <=> w[r].CloseNotifier
            /\ {"Status", "Size"} \subseteq MethodSet(logger[r])

C6_Witness ==
    \E r \in DOMAIN pc :
        /\ pc[r] = "handler"
        /\ w[r].Hijacker /\ w[r].CloseNotifier
        /\ logger[r].type = "hijackCloseNotifier"
        /\ {"Hijack", "CloseNotify", "Status", "Size"} \subseteq MethodSet(logger[r])

\* C7: a handler that calls Write at least once and never WriteHeader or
\* Hijack gets a logged status of 200.
C7_WriteOnlyLogs200 ==
    \A r \in DOMAIN pc :
        (/\ pc[r] = "done"
         /\ OpsIn(calls[r], {"Write"}) # <<>>
         /\ OpsIn(calls[r], {"WriteHeader", "Hijack"}) = <<>>)
            => LogRec(r).status = StatusOK

C7_Witness ==
    \E r \in DOMAIN pc :
        /\ pc[r] = "done"
        /\ Sent(calls[r]) = << <<"Write", 10>> >>
        /\ LogRec(r).status = 200 /\ LogRec(r).size = 10

\* C8 as stated: a handler that calls neither Write nor WriteHeader gets a
\* logged status of 0 and a logged size of 0.
C8_NothingLogsZero ==
    \A r \in DOMAIN pc :
        (pc[r] = "done" /\ OpsIn(calls[r], {"Write", "WriteHeader"}) = <<>>)
            => LogRec(r).status = 0 /\ LogRec(r).size = 0

\* C8 as amended: a handler that calls neither Write nor WriteHeader and on
\* which no Hijack succeeds gets a logged status of 0 and a logged size of 0.
C8_NothingNoUpgradeLogsZero ==
    \A r \in DOMAIN pc :
        (/\ pc[r] = "done"
         /\ OpsIn(calls[r], {"Write", "WriteHeader"}) = <<>>
         /\ \A i \in DOMAIN calls[r] : ~IsHijackOK(calls[r][i]))
            => LogRec(r).status = 0 /\ LogRec(r).size = 0

C8_Witness ==
    \E r \in DOMAIN pc :
        /\ pc[r] = "done"
        /\ Sent(calls[r]) = << <<"Header", 0>>, <<"Hijack", 0>>, <<"Flush", 0>> >>
        /\ LogRec(r).status = 0 /\ LogRec(r).size = 0

\* the timed requests with method m whose position is in ps
TimedAt(m, ps) == {q \in DOMAIN tpc : method[q] = m /\ tpc[q] \in ps}

\* the timers created under name m
TimersNamed(m) == {i \in DOMAIN timers : timers[i].name = m}

\* C9: under every interleaving there is one timer per method in use, it is
\* the registered one, and it holds one sample per finished request of that
\* method: N finished GET requests leave one timer GET with N samples.
C9_OneTimerAllSamples ==
    \A m \in Methods :
        IF TimedAt(m, {"timing", "returned", "done"}) = {}
        THEN TimersNamed(m) = {} /\ m \notin DOMAIN registry
        ELSE /\ m \in DOMAIN registry
             /\ TimersNamed(m) = {registry[m]}
             /\ timers[registry[m]].count = Cardinality(TimedAt(m, {"done"}))

C9_Witness ==
    /\ \A q \in DOMAIN tpc : tpc[q] = "done" /\ method[q] = "GET"
    /\ DOMAIN tpc = TimedReqs
    /\ DOMAIN registry = {"GET"}
    /\ timers = << [name |-> "GET", count |-> NumTimed] >>

\* C10: the real sink receives the calls the inner handler made, in order
\* and with the same arguments, less the Flush calls of a sink that cannot
\* flush, and nothing more: its Write and WriteHeader calls are the handler's.
C10_ResponseUnaltered ==
    \A r \in DOMAIN pc :
        /\ Sent(wire[r]) =
              Sent(SelectSeq(calls[r],
                             LAMBDA c : ~(c.op = "Flush" /\ ~w[r].Flusher)))
        /\ Sent(OpsIn(wire[r], {"Write", "WriteHeader"})) =
              Sent(OpsIn(calls[r], {"Write", "WriteHeader"}))

C10_Witness ==
    \E r \in DOMAIN pc :
        /\ pc[r] = "done"
        /\ Len(calls[r]) = 3
        /\ IsHijackOK(calls[r][1])
        /\ calls[r][2].op = "Flush" /\ ~w[r].Flusher
        /\ calls[r][3].op = "Write"
        /\ LogRec(r).status = StatusSwitchingProtocols
        /\ Sent(wire[r]) = << <<"Hijack", 0>>, <<"Write", calls[r][3].arg>> >>

\* an HTTP/2 CONNECT request
IsH2Connect(rq) == rq.ProtoMajor = 2 /\ rq.Method = "CONNECT"

\* C11 as stated: the logged uri is the Host of an HTTP/2 CONNECT request,
\* else the raw URI, else, the raw URI being empty, the URI of the URL the
\* request had before the inner handler ran.
C11_URIRule ==
    \A r \in DOMAIN pc :
        pc[r] = "done" =>
            LogRec(r).uri =
                IF IsH2Connect(req[r]) THEN req[r].Host
                ELSE IF req[r].RequestURI # <<>> THEN req[r].RequestURI
                ELSE URL_RequestURI(req0[r].URL)

\* C11 as amended: the Host of an HTTP/2 CONNECT request or else the raw URI
\* is chosen, and when what was chosen is empty the logged uri is the URI of
\* the URL the request had before the inner handler ran; an HTTP/2 CONNECT
\* with an empty raw URI and Host proxy.example:443 logs proxy.example:443.
C11_URIRuleOnChosen ==
    \A r \in DOMAIN pc :
        pc[r] = "done" =>
            LET chosen == IF IsH2Connect(req[r]) THEN req[r].Host
                          ELSE req[r].RequestURI
            IN  /\ chosen # <<>> => LogRec(r).uri = chosen
                /\ chosen = <<>> => LogRec(r).uri = URL_RequestURI(req0[r].URL)
                /\ (/\ IsH2Connect(req[r])
                    /\ req[r].RequestURI = <<>>
                    /\ req[r].Host = <<"proxy.example:443">>)
                   => LogRec(r).uri = <<"proxy.example:443">>

C11_Witness ==
    \E r \in DOMAIN pc :
        /\ pc[r] = "done"
        /\ req0[r] = req[r]
        /\ IsH2Connect(req[r])
        /\ req[r].RequestURI = <<>>
        /\ req[r].Host = <<"proxy.example:443">>
        /\ LogRec(r).uri = <<"proxy.example:443">>

\* the uri falls back on the copied URL: what lines 156-163 chose is empty
UsesFallback(rq) ==
    (IF IsH2Connect(rq) THEN rq.Host ELSE rq.RequestURI) = <<>>

\* C17 as stated: the logged username, method and fallback URI are those of
\* the request as it was before the inner handler ran.
C17_LogReflectsSnapshot ==
    \A r \in DOMAIN pc :
        pc[r] = "done" =>
            /\ LogRec(r).username = Username(req0[r].URL)
            /\ LogRec(r).method = req0[r].Method
            /\ UsesFallback(req[r]) => LogRec(r).uri = URL_RequestURI(req0[r].URL)

\* C17 as amended: the logged username and fallback URI are those of the URL
\* the request had before the inner handler ran, whatever the handler
\* assigned to it; the logged method is the one the request has when the
\* inner handler has returned.
C17_LogReflectsURLSnapshot ==
    \A r \in DOMAIN pc :
        pc[r] = "done" =>
            /\ LogRec(r).username = Username(req0[r].URL)
            /\ LogRec(r).method = req[r].Method
            /\ UsesFallback(req[r]) => LogRec(r).uri = URL_RequestURI(req0[r].URL)

C17_Witness ==
    \E r \in DOMAIN pc :
        /\ pc[r] = "done"
        /\ req0[r].URL.User.name = "bob" /\ req[r].URL.User = NoUser
        /\ req0[r].URL.Path = <<"/p">> /\ req[r].URL.Path = <<>>
        /\ req0[r].Method = "GET" /\ req[r].Method = "CONNECT"
        /\ UsesFallback(req[r])
        /\ LogRec(r).username = "bob"
        /\ LogRec(r).method = "CONNECT"
        /\ LogRec(r).uri \in {<<"/p">>, <<"/p", "?", "q=1">>}

\* the step is a call of op by the inner handler of r
Called(r, op) ==
    /\ Len(calls'[r]) = Len(calls[r]) + 1
    /\ calls'[r][Len(calls'[r])].op = op

\* the last call of a sequence that has one
LastOf(cs) == cs[Len(cs)]

\* C12 as stated: the tracked status is 0 only while neither Write nor
\* WriteHeader has been called, and once it is not 0 no WriteHeader call
\* changes it.
C12_StatusSetOnce ==
    [][\A r \in DOMAIN pc :
          /\ logger'[r].status = 0
                => OpsIn(calls'[r], {"Write", "WriteHeader"}) = <<>>
          /\ (logger[r].status # 0 /\ Called(r, "WriteHeader"))
                => logger'[r].status = logger[r].status]_vars

\* C13: no step makes the tracked size smaller, and only a Write call
\* changes it.
C13_SizeMonotonic ==
    [][\A r \in DOMAIN pc :
          /\ logger'[r].size >= logger[r].size
          /\ logger'[r].size # logger[r].size => Called(r, "Write")]_vars

C13_Witness ==
    \E r \in DOMAIN pc :
        /\ Len(calls[r]) = 3
        /\ calls[r][1].op = "Write" /\ calls[r][1].res.n = 37
        /\ calls[r][2].op = "WriteHeader"
        /\ calls[r][3].op = "Write" /\ calls[r][3].arg = 10 /\ calls[r][3].res.n = 0
        /\ logger[r].size = 37

\* C14: once WriteHeader has been called, the tracked status is the code of
\* the last WriteHeader call, whatever was called before or after it, the
\* real sink has been sent that code last, and the record logs it.
C14_LastWriteHeaderWins ==
    \A r \in DOMAIN pc :
        OpsIn(calls[r], {"WriteHeader"}) # <<>> =>
            /\ logger[r].status = LastCode(calls[r])
            /\ OpsIn(wire[r], {"WriteHeader"}) # <<>>
            /\ LastCode(wire[r]) = LastCode(calls[r])
            /\ pc[r] = "done" => LogRec(r).status = LastCode(calls[r])

C14_Witness ==
    \E r \in DOMAIN pc :
        /\ pc[r] = "done"
        /\ Len(calls[r]) = 3
        /\ calls[r][1].op = "Write"
        /\ IsHijackOK(calls[r][2])
        /\ calls[r][3].op = "WriteHeader" /\ calls[r][3].arg = 500
        /\ LogRec(r).status = 500

\* C15: a Write call makes an unset status 200 whatever the real sink
\* returns, leaves a set status as it is, sends the slice to the real sink
\* once, adds the count the real sink returned to the size and returns the
\* real sink's count and error.
C15_WriteContract ==
    [][\A r \in DOMAIN pc :
          Called(r, "Write") =>
              /\ logger'[r].status =
                    IF logger[r].status = 0 THEN StatusOK ELSE logger[r].status
              /\ Len(wire'[r]) = Len(wire[r]) + 1
              /\ SubSeq(wire'[r], 1, Len(wire[r])) = wire[r]
              /\ LastOf(wire'[r]).op = "Write"
              /\ LastOf(wire'[r]).arg = LastOf(calls'[r]).arg
              /\ logger'[r].size = logger[r].size + LastOf(wire'[r]).res.n
              /\ LastOf(calls'[r]).res = LastOf(wire'[r]).res]_vars

C15_Witness ==
    \E r \in DOMAIN pc :
        /\ Len(calls[r]) = 1
        /\ calls[r][1].op = "Write"
        /\ calls[r][1].arg = 10
        /\ calls[r][1].res.n = 0 /\ calls[r][1].res.err = "ErrWrite"
        /\ logger[r].status = StatusOK
        /\ logger[r].size = 0

\* C16: a Hijack call that succeeds makes an unset status 101 and leaves a
\* set status as it is.
C16_UpgradeOnlyWhenUnset ==
    [][\A r \in DOMAIN pc :
          (Called(r, "Hijack") /\ LastOf(calls'[r]).res.err = "nil") =>
              logger'[r].status =
                  IF logger[r].status = 0 THEN StatusSwitchingProtocols
                  ELSE logger[r].status]_vars

C16_Witness ==
    \E r \in DOMAIN pc :
        /\ Len(calls[r]) = 2
        /\ calls[r][1].op = "WriteHeader" /\ calls[r][1].arg = 404
        /\ IsHijackOK(calls[r][2])
        /\ logger[r].status = 404

\* C18: a request whose inner handler never returns never has a log record.
C18_NoReturnNoRecord ==
    \A r \in Reqs :
        [](pc[r] \in {"start", "handler"}) => [](LogsOf(r) = <<>>)

C18_Witness ==
    \E r \in DOMAIN pc :
        /\ pc[r] = "handler"
        /\ Len(calls[r]) = MaxOps
        /\ logger[r].status # 0
        /\ LogsOf(r) = <<>>

\* C19: a Flush call sends one Flush to a real sink that is a Flusher and
\* nothing to one that is not, and leaves the tracked status and size as
\* they were.
C19_FlushContract ==
    [][\A r \in DOMAIN pc :
          Called(r, "Flush") =>
              /\ wire'[r] = IF w[r].Flusher
                            THEN Append(wire[r], Call("Flush", 0, NoRes))
                            ELSE wire[r]
              /\ logger'[r].status = logger[r].status
              /\ logger'[r].size = logger[r].size]_vars

C19_Witness ==
    \E r \in DOMAIN pc :
        /\ Sent(calls[r]) = << <<"Flush", 0>>, <<"Flush", 0>> >>
        /\ w[r].Flusher
        /\ Sent(wire[r]) = Sent(calls[r])
        /\ logger[r].status = 0

\* the status a handler's own calls cs leave: the code of its last
\* WriteHeader call, or else 200 or 101 as a Write or a successful Hijack
\* came first, or else 0
StatusOf(cs) ==
    LET StartsResponse(c) == IsWrite(c) \/ IsHijackOK(c)
        i == FirstIdx(cs, StartsResponse)
    IN  IF OpsIn(cs, {"WriteHeader"}) # <<>> THEN LastCode(cs)
        ELSE IF i > Len(cs) THEN 0
        ELSE IF IsWrite(cs[i]) THEN StatusOK
        ELSE StatusSwitchingProtocols

\* C20: under every interleaving of the calls of concurrent requests, the
\* tracked state of a request and its log record carry the status and the
\* size that the request's own calls produce, whatever the others call.
C20_OwnStatusAndSize ==
    \A r \in DOMAIN pc :
        /\ logger[r].status = StatusOf(calls[r])
        /\ logger[r].size = SumN(OpsIn(calls[r], {"Write"}))
        /\ Len(LogsOf(r)) <= 1
        /\ pc[r] = "done" =>
              /\ LogRec(r).status = StatusOf(calls[r])
              /\ LogRec(r).size = SumN(OpsIn(calls[r], {"Write"}))

C20_Witness ==
    /\ DOMAIN pc = ConcReqs
    /\ pc["r1"] = "handler" /\ pc["r2"] = "done"
    /\ Sent(calls["r1"]) = << <<"WriteHeader", 404>> >>
    /\ Len(calls["r2"]) = 2
    /\ calls["r2"][1].op = "Write" /\ calls["r2"][1].res.n = 37
    /\ IsHijackOK(calls["r2"][2])
    /\ logger["r1"].status = 404 /\ logger["r1"].size = 0
    /\ LogRec("r2").status = StatusOK /\ LogRec("r2").size = 37

====
